---- MODULE Spec2Model ----
(***************************************************************************)
(* Model of the weather application: the WeatherAPI service with its       *)
(* time-bounded response cache (weather_api.py), the WeatherWorker threads *)
(* and the WeatherMainWindow handlers that start them (main_window.py),    *)
(* the LocationService (location_weather.py) and the cache configuration   *)
(* (config.py).                                                            *)
(*                                                                         *)
(* Strings are sequences of one-character strings, so that lower(),        *)
(* strip() and the f-string key construction are computed, not assumed.    *)
(* Floats are integers counting tenths (515 is 51.5). Time is in seconds.  *)
(***************************************************************************)
EXTENDS Integers, Sequences, FiniteSets, TLC

\* ------------------------------------------------------------------ bounds

\* Number of WeatherWorker threads that may exist at the same time.
MaxWorkers == 2

\* Number of runs of stores by which a caller fills the cache beyond
\* MaxCacheSize entries.
FillChunks == 3

\* ------------------------------------------------------- program constants

\* timedelta(seconds=300) in _get_cached_data.
CacheTTL == 300

\* auto_refresh_timer.start(600000): the period of the timer, in seconds.
RefreshPeriod == 600

\* CACHE_CONFIG["MAX_CACHE_SIZE"]
MaxCacheSize == 100

\* ------------------------------------------------------------ input domains

\* The instants at which the clock is observed. The clock only moves forward.
\* Ages of 299 (600 - 301), 300 and 301 seconds all occur.
TimePoints == {0, 300, 301, 600}

\* City arguments of get_weather_by_city.
CityTexts == { <<"L", "o">>, <<"l", "o">>, <<" ">> }

\* Texts of the window's city input.
InputTexts == { <<"L", "o">>, <<" ">> }

\* Coordinate pairs (latitude, longitude) in tenths of a degree.
CoordPairs == { <<515, -1>> }

\* The city name the provider reports in its payload ("name").
ProviderNames == { <<"L", "o">> }

\* Temperatures the provider reports (main.temp, already whole numbers).
Temps == {10, 20}

Workers == 1..MaxWorkers

None == [none |-> TRUE]

\* ------------------------------------------------------------ pure helpers

\* str.lower() on one character of the alphabet used here.
LowerChar(ch) ==
    CASE ch = "L" -> "l"
      [] ch = "O" -> "o"
      [] OTHER -> ch

\* str.lower()
Lower(s) == [i \in 1..Len(s) |-> LowerChar(s[i])]

IsSpace(ch) == ch = " "

RECURSIVE LStrip(_)
LStrip(s) ==
    IF s # <<>> /\ IsSpace(Head(s)) THEN LStrip(Tail(s)) ELSE s

RECURSIVE RStrip(_)
RStrip(s) ==
    IF s # <<>> /\ IsSpace(s[Len(s)]) THEN RStrip(SubSeq(s, 1, Len(s) - 1)) ELSE s

\* Mutant of Strip: nothing is stripped.
StripNone(s) == s

\* str.strip()
Strip(s) == RStrip(LStrip(s))

DigitChar(d) ==
    CASE d = 0 -> "0" [] d = 1 -> "1" [] d = 2 -> "2" [] d = 3 -> "3"
      [] d = 4 -> "4" [] d = 5 -> "5" [] d = 6 -> "6" [] d = 7 -> "7"
      [] d = 8 -> "8" [] OTHER -> "9"

RECURSIVE NatStr(_)
NatStr(n) ==
    IF n < 10 THEN <<DigitChar(n)>> ELSE NatStr(n \div 10) \o <<DigitChar(n % 10)>>

\* str(float) for a float given in tenths: sign, integer part, ".", one digit.
FloatStr(x) ==
    LET a == IF x < 0 THEN 0 - x ELSE x
    IN  (IF x < 0 THEN <<"-">> ELSE <<>>)
          \o NatStr(a \div 10) \o <<".">> \o <<DigitChar(a % 10)>>

\* Mutant of CityKey: the city is not lowered.
CityKeyCaseSensitive(c) == <<"c", "i", "t", "y", "_">> \o c

\* Mutant of CityKey: the city key carries the tag of the coordinate keys.
CityKeyAsCoords(c) == <<"c", "o", "o", "r", "d", "s", "_">> \o Lower(c)

\* f"city_{city.lower()}"
CityKey(c) == <<"c", "i", "t", "y", "_">> \o Lower(c)

\* f"coords_{lat}_{lon}"
CoordsKey(lat, lon) ==
    <<"c", "o", "o", "r", "d", "s", "_">> \o FloatStr(lat) \o <<"_">> \o FloatStr(lon)

\* Mutant of Truthy: the caller's test of the lookup result never succeeds.
TruthyNever(d) == FALSE

\* Truth value of the Optional[Dict] a lookup returns: None is false; a
\* record built by _process_weather_data has twelve keys and is true.
Truthy(d) == d # None

\* The record _process_weather_data builds from a complete payload; of its
\* twelve keys the two that tell one record from another are kept.
ProcessWeatherData(payload) ==
    [city |-> payload.name, temperature |-> payload.temp]

\* ----------------------------------------------------------------- state

VARIABLES
    cache_enabled,        \* CACHE_CONFIG["ENABLED"]
    now,                  \* the clock read by datetime.now()
    cache,                \* WeatherAPI._cache: key -> [data, timestamp]
    ever_stored,          \* history: the keys _cache_data was ever called with
    last_put,             \* history: the latest call of _cache_data made by a
                          \* caller itself (DirectCacheData), or None
    stored_city,          \* history: per key, the city argument of the call that
                          \* stored it last (<<>> when it was not a city call)
    pc,                   \* per worker: where its thread is
    method,               \* per worker: the WeatherAPI method it executes
    city,                 \* per worker: WeatherWorker.city / the city argument
    coordinates,          \* per worker: WeatherWorker.coordinates
    error_connected,      \* per worker: error_occurred is connected to show_error
    cache_key,            \* per worker: local cache_key / key
    cache_entry,          \* per worker: local cache_entry of _get_cached_data
    cache_age,            \* per worker: local cache_age of _get_cached_data
    response,             \* per worker: what requests.get produced
    outcome,              \* per worker: how the API call ended
    latest,               \* history: the worker of the most recently started
                          \* request; Shown once that request's result is
                          \* displayed; 0 when it failed or nothing is running
    buttons_enabled,      \* search, location and refresh buttons
    current_weather_data, \* WeatherMainWindow.current_weather_data
    timer_due             \* next timeout of auto_refresh_timer

wvars == <<pc, method, city, coordinates, error_connected, cache_key, cache_entry,
           cache_age, response, outcome, latest>>
uvars == <<buttons_enabled, current_weather_data, timer_due>>
hvars == <<ever_stored, last_put, stored_city>>
vars == <<cache_enabled, now, cache, hvars, wvars, uvars>>

NoOutcome == [kind |-> "none"]
\* cache_age before it is assigned
NoAge == -1
\* cache_key before it is assigned
NoKey == <<>>
Returned(d) == [kind |-> "returned", data |-> d]
\* exception e raised in function `at`
Raised(e, at) == [kind |-> "raised", exc |-> e, at |-> at]

\* WeatherAPI.__init__, WeatherMainWindow.__init__, setup_auto_refresh
Init ==
    /\ cache_enabled \in BOOLEAN
    /\ now = 0
    /\ cache = <<>>
    /\ ever_stored = {}
    /\ last_put = None
    /\ stored_city = <<>>
    /\ pc = [w \in Workers |-> "idle"]
    /\ method = [w \in Workers |-> "none"]
    /\ city = [w \in Workers |-> <<>>]
    /\ coordinates = [w \in Workers |-> <<>>]
    /\ error_connected = [w \in Workers |-> FALSE]
    /\ cache_key = [w \in Workers |-> NoKey]
    /\ cache_entry = [w \in Workers |-> None]
    /\ cache_age = [w \in Workers |-> NoAge]
    /\ response = [w \in Workers |-> None]
    /\ outcome = [w \in Workers |-> NoOutcome]
    /\ latest = 0
    /\ buttons_enabled = TRUE
    /\ current_weather_data = None
    /\ timer_due = RefreshPeriod

\* Time passes.
Tick ==
    /\ \E t \in TimePoints : t > now /\ now' = t
    /\ UNCHANGED <<cache_enabled, cache, hvars, wvars, uvars>>

\* ------------------------------------------------------- the HTTP provider

\* What requests.get(...) can produce: an exception of the transport, or a
\* response. A response has an HTTP status; a good one carries a body that
\* is JSON or not; a JSON body has a "cod", and is complete (it has the
\* weather, main.temp, ... fields _process_weather_data reads) or not.
TransportFailures == {"Timeout", "ConnectionError"}

Resp(status, cod, complete, name, temp) ==
    [status |-> status, cod |-> cod, complete |-> complete, name |-> name, temp |-> temp]

Responses ==
    { Resp("ok", 200, TRUE, n, t) : n \in ProviderNames, t \in Temps }
      \cup { Resp("ok", 200, FALSE, <<>>, 0), Resp("ok", 404, FALSE, <<>>, 0),
             Resp("http_error", 0, FALSE, <<>>, 0), Resp("bad_json", 0, FALSE, <<>>, 0) }
      \cup { Resp(f, 0, FALSE, <<>>, 0) : f \in TransportFailures }

\* response.json() on a body that is not JSON raises
\* requests.exceptions.JSONDecodeError, a RequestException, in requests >= 2.27
\* and a plain ValueError before: both builds exist.
JsonErrors == {"RequestException", "ValueError"}

\* ------------------------------------------------------ worker bookkeeping

IsCityCall(w) == method[w] = "get_weather_by_city"

\* The call of worker w ends with outcome o (a return or a raise).
EndCall(w, o) ==
    /\ pc' = [pc EXCEPT ![w] = "call_end"]
    /\ outcome' = [outcome EXCEPT ![w] = o]

\* --------------------------------------------------------- WeatherAPI steps

\* Mutant of InCache: the membership test always succeeds.
InCacheAlways(d, key) == TRUE

\* key in self._cache
InCache(d, key) == key \in DOMAIN d

\* The key the method computes from its arguments.
KeyOf(w) ==
    IF IsCityCall(w) THEN CityKey(city[w])
                     ELSE CoordsKey(coordinates[w][1], coordinates[w][2])

\* get_weather_by_city / get_weather_by_coordinates from their first line to
\* the membership test of _get_cached_data: the empty-city check, the cache
\* key, `if key not in self._cache: return None`, and the caller going on to
\* the request when the lookup returned None
Enter(w) ==
    /\ pc[w] = "enter"
    /\ IF IsCityCall(w) /\ Strip(city[w]) = <<>>
       THEN /\ EndCall(w, Raised("WeatherAPIError", "get_weather_by_city"))
            /\ UNCHANGED cache_key
       ELSE /\ cache_key' = [cache_key EXCEPT ![w] = KeyOf(w)]
            /\ pc' = [pc EXCEPT ![w] = IF InCache(cache, KeyOf(w))
                                       THEN "lookup_read" ELSE "request"]
            /\ UNCHANGED outcome
    /\ UNCHANGED <<cache_enabled, now, cache, hvars, method, city, coordinates,
                   error_connected, latest, cache_entry, cache_age, response, uvars>>

\* _get_cached_data: cache_entry = self._cache[key]
LookupRead(w) ==
    /\ pc[w] = "lookup_read"
    /\ IF cache_key[w] \in DOMAIN cache
       THEN /\ cache_entry' = [cache_entry EXCEPT ![w] = cache[cache_key[w]]]
            /\ pc' = [pc EXCEPT ![w] = "lookup_age"]
            /\ UNCHANGED outcome
       ELSE /\ EndCall(w, Raised("KeyError", "_get_cached_data"))
            /\ UNCHANGED cache_entry
    /\ UNCHANGED <<cache_enabled, now, cache, hvars, method, city, coordinates,
                   error_connected, latest, cache_key, cache_age, response, uvars>>

\* Mutant of Age: the age is measured from the start of the clock.
AgeSinceStart(entry, t) == t

\* datetime.now() - cache_entry["timestamp"]
Age(entry, t) == t - entry.timestamp

\* Mutant of Expired: no entry ever expires.
ExpiredNever(age) == FALSE

\* Mutant of Expired: an entry aged exactly the TTL counts as expired.
ExpiredAtTTL(age) == age >= CacheTTL

\* cache_age > timedelta(seconds=300)
Expired(age) == age > CacheTTL

\* _get_cached_data: cache_age = datetime.now() - cache_entry["timestamp"], the
\* age test, return cache_entry["data"]; and the caller's
\* `if cached_data: return cached_data`
LookupAge(w) ==
    /\ pc[w] = "lookup_age"
    /\ cache_age' = [cache_age EXCEPT ![w] = Age(cache_entry[w], now)]
    /\ IF Expired(Age(cache_entry[w], now))
       THEN /\ pc' = [pc EXCEPT ![w] = "lookup_del"]
            /\ UNCHANGED outcome
       ELSE IF Truthy(cache_entry[w].data)
       THEN EndCall(w, Returned(cache_entry[w].data))
       ELSE /\ pc' = [pc EXCEPT ![w] = "request"]
            /\ UNCHANGED outcome
    /\ cache_entry' = [cache_entry EXCEPT ![w] = None]    \* not read again
    /\ UNCHANGED <<cache_enabled, now, cache, hvars, method, city, coordinates,
                   error_connected, latest, cache_key, response, uvars>>

\* Mutant of DictDel: the whole dict is cleared.
DictDelAll(d, k) == <<>>

\* Mutant of DictDel: nothing is deleted.
DictDelKeep(d, k) == d

\* del d[k] on a dict
DictDel(d, k) == [x \in DOMAIN d \ {k} |-> d[x]]

\* _get_cached_data: del self._cache[key]; return None; and the caller going
\* on to the request
LookupDel(w) ==
    /\ pc[w] = "lookup_del"
    /\ IF cache_key[w] \in DOMAIN cache
       THEN /\ cache' = DictDel(cache, cache_key[w])
            /\ pc' = [pc EXCEPT ![w] = "request"]
            /\ UNCHANGED outcome
       ELSE /\ EndCall(w, Raised("KeyError", "_get_cached_data"))
            /\ UNCHANGED cache
    /\ cache_age' = [cache_age EXCEPT ![w] = NoAge]       \* not read again
    /\ UNCHANGED <<cache_enabled, now, hvars, method, city, coordinates,
                   error_connected, latest, cache_key, cache_entry, response, uvars>>

\* Mutant of DictSet: a new key put into a dict of MaxCacheSize keys evicts
\* one of them.
DictSetBounded(d, k, v) ==
    IF k \notin DOMAIN d /\ Cardinality(DOMAIN d) >= MaxCacheSize
    THEN LET victim == CHOOSE x \in DOMAIN d : TRUE
         IN  [x \in (DOMAIN d \ {victim}) \cup {k} |-> IF x = k THEN v ELSE d[x]]
    ELSE [x \in DOMAIN d \cup {k} |-> IF x = k THEN v ELSE d[x]]

\* d[k] = v on a dict
DictSet(d, k, v) == [x \in DOMAIN d \cup {k} |-> IF x = k THEN v ELSE d[x]]

\* Mutant of CacheData: an entry already present is kept (setdefault).
CacheDataKeepOld(d, key, data, t) ==
    IF key \in DOMAIN d THEN d ELSE DictSet(d, key, [data |-> data, timestamp |-> t])

\* _cache_data
CacheData(d, key, data, t) == DictSet(d, key, [data |-> data, timestamp |-> t])

\* How the try block goes on for what requests.get produced: the exception
\* that leaves the method, or a return (of the record built next) when a
\* complete payload reaches _process_weather_data.
RespondEnd(r, cityCall) ==
    IF r.status \in TransportFailures \cup {"http_error"}
    THEN {Raised("WeatherAPIError", IF cityCall THEN "get_weather_by_city"
                                                ELSE "get_weather_by_coordinates")}
    ELSE IF r.status = "bad_json"
    THEN {IF e = "RequestException"
          THEN Raised("WeatherAPIError", IF cityCall THEN "get_weather_by_city"
                                                     ELSE "get_weather_by_coordinates")
          ELSE Raised(e, "json") : e \in JsonErrors}
    ELSE IF cityCall /\ r.cod # 200
    THEN {Raised("WeatherAPIError", "get_weather_by_city")}
    ELSE IF ~r.complete
    THEN {Raised("KeyError", "_process_weather_data")}
    ELSE {Returned(None)}

\* Mutant of Request: the parsed body is cached as soon as response.json()
\* returns, before the cod test and before _process_weather_data.
RequestCachesRaw(w) ==
    /\ pc[w] = "request"
    /\ \E r \in Responses : \E e \in RespondEnd(r, IsCityCall(w)) :
         /\ IF e.kind = "returned"
            THEN /\ response' = [response EXCEPT ![w] = r]
                 /\ pc' = [pc EXCEPT ![w] = "store"]
                 /\ UNCHANGED outcome
            ELSE /\ EndCall(w, e)
                 /\ UNCHANGED response
         /\ IF r.status = "ok"
            THEN cache' = CacheData(cache, cache_key[w], r, now)
            ELSE UNCHANGED cache
    /\ UNCHANGED <<cache_enabled, now, hvars, method, city, coordinates,
                   error_connected, latest, cache_key, cache_entry, cache_age, uvars>>

\* requests.get(url, params=params, timeout=self.timeout), raise_for_status,
\* response.json(), the cod test of the city path, the fields
\* _process_weather_data reads; and the except clauses
Request(w) ==
    /\ pc[w] = "request"
    /\ \E r \in Responses : \E e \in RespondEnd(r, IsCityCall(w)) :
         IF e.kind = "returned"
         THEN /\ response' = [response EXCEPT ![w] = r]
              /\ pc' = [pc EXCEPT ![w] = "store"]
              /\ UNCHANGED outcome
         ELSE /\ EndCall(w, e)
              /\ UNCHANGED response
    /\ UNCHANGED <<cache_enabled, now, cache, hvars, method, city, coordinates,
                   error_connected, latest, cache_key, cache_entry, cache_age, uvars>>

\* processed_data = self._process_weather_data(data);
\* self._cache_data(cache_key, processed_data); return processed_data
Store(w) ==
    /\ pc[w] = "store"
    /\ LET processed_data == ProcessWeatherData(response[w])
       IN  /\ cache' = CacheData(cache, cache_key[w], processed_data, now)
           /\ EndCall(w, Returned(processed_data))
    /\ ever_stored' = ever_stored \cup {cache_key[w]}
    /\ stored_city' = [k \in DOMAIN stored_city \cup {cache_key[w]} |->
                         IF k = cache_key[w] THEN city[w] ELSE stored_city[k]]
    /\ UNCHANGED <<cache_enabled, now, last_put, method, city, coordinates, error_connected, latest,
                   cache_key, cache_entry, cache_age, response, uvars>>

\* One step of the API call worker w is in.
ApiStep(w) ==
    \/ Enter(w)
    \/ LookupRead(w)
    \/ LookupAge(w)
    \/ LookupDel(w)
    \/ Request(w)
    \/ Store(w)

\* --------------------------------------------------- calls made in sequence

CallDone(w) == pc[w] \in {"idle", "call_end"}

\* A caller invokes method m once the previous call has ended.
Call(w, m, c, xy) ==
    /\ \A v \in Workers : CallDone(v)
    /\ pc' = [pc EXCEPT ![w] = "enter"]
    /\ method' = [method EXCEPT ![w] = m]
    /\ city' = [city EXCEPT ![w] = c]
    /\ coordinates' = [coordinates EXCEPT ![w] = xy]
    /\ cache_key' = [cache_key EXCEPT ![w] = NoKey]
    /\ cache_entry' = [cache_entry EXCEPT ![w] = None]
    /\ cache_age' = [cache_age EXCEPT ![w] = NoAge]
    /\ response' = [response EXCEPT ![w] = None]
    /\ outcome' = [outcome EXCEPT ![w] = NoOutcome]
    /\ UNCHANGED <<cache_enabled, now, cache, hvars, error_connected, latest, uvars>>

CallCity == \E c \in CityTexts : Call(1, "get_weather_by_city", c, <<>>)

CallCoords == \E xy \in CoordPairs : Call(1, "get_weather_by_coordinates", <<>>, xy)

SeqStep == \E w \in Workers : ApiStep(w)

SeqNext ==
    \/ Tick
    \/ CallCity
    \/ CallCoords
    \/ SeqStep

\* Calls made one after another on one WeatherAPI instance, under either
\* setting of CACHE_CONFIG["ENABLED"].
SeqSpec == Init /\ [][SeqNext]_vars

\* The records the program stores: _process_weather_data of a complete payload.
Records == { ProcessWeatherData(r) : r \in {x \in Responses : x.complete} }

\* The keys the two methods build.
Keys == { CityKey(c) : c \in {x \in CityTexts : Strip(x) # <<>>} }
          \cup { CoordsKey(xy[1], xy[2]) : xy \in CoordPairs }

\* A caller invokes _cache_data(key, data) itself, between two calls.
DirectCacheData ==
    /\ \A v \in Workers : CallDone(v)
    /\ \E key \in Keys, data \in Records :
         /\ cache' = CacheData(cache, key, data, now)
         /\ ever_stored' = ever_stored \cup {key}
         /\ last_put' = [key |-> key, data |-> data, time |-> now,
                         replaced |-> IF key \in DOMAIN cache THEN cache[key].data ELSE None]
         /\ stored_city' = [k \in DOMAIN stored_city \cup {key} |->
                              IF k = key THEN <<>> ELSE stored_city[k]]
    /\ pc' = [w \in Workers |-> "idle"]
    /\ cache_key' = [w \in Workers |-> NoKey]
    /\ outcome' = [w \in Workers |-> NoOutcome]
    /\ response' = [w \in Workers |-> None]
    /\ cache_age' = [w \in Workers |-> NoAge]
    /\ UNCHANGED <<cache_enabled, now, method, city, coordinates, error_connected, latest,
                   cache_entry, uvars>>

PutNext == SeqNext \/ DirectCacheData

\* Calls made one after another, _cache_data among them.
PutSpec == Init /\ [][PutNext]_vars

\* City arguments for the key construction: those of CityTexts, the empty
\* string, and a city spelled like the coordinate part of a coordinate key.
KeyCityTexts ==
    CityTexts \cup { <<>>, <<"5", "1", ".", "5", "_", "-", "0", ".", "1">> }

KeyCallCity == \E c \in KeyCityTexts : Call(1, "get_weather_by_city", c, <<>>)

KeyNext ==
    \/ Tick
    \/ KeyCallCity
    \/ CallCoords
    \/ SeqStep

\* Calls made one after another, with the city arguments of KeyCityTexts.
KeySpec == Init /\ [][KeyNext]_vars

\* The key of the n-th of the coordinate pairs (n.0, 0.0).
FillKey(n) == CoordsKey(n * 10, 0)

\* Number of keys stored in one run.
FillChunk == (MaxCacheSize \div FillChunks) + 1

\* The keys of run c.
ChunkKeys(c) == { FillKey(n) : n \in (c * FillChunk + 1)..((c + 1) * FillChunk) }

FillKeys == UNION { ChunkKeys(c) : c \in 0..(FillChunks - 1) }

\* _cache_data(FillKey(from + 1), data), ..., _cache_data(FillKey(from + n), data)
\* on d
RECURSIVE CacheAll(_, _, _, _, _)
CacheAll(d, from, n, data, t) ==
    IF n = 0 THEN d
    ELSE CHOOSE after \in { CacheData(before, FillKey(from + n), data, t) :
                               before \in {CacheAll(d, from, n - 1, data, t)} } : TRUE

\* The records a filling caller stores.
FillRecords == { r \in Records : \A q \in Records : r.temperature <= q.temperature }

\* A caller stores a record under the FillChunk keys of one run in a row,
\* within one second, between two calls: the first run of which a key is
\* missing. After all runs the cache holds more than MaxCacheSize entries.
FillCache ==
    /\ \A v \in Workers : CallDone(v)
    /\ \E c \in 0..(FillChunks - 1), data \in FillRecords :
         /\ ~(ChunkKeys(c) \subseteq DOMAIN cache)
         /\ \A b \in 0..(c - 1) : ChunkKeys(b) \subseteq DOMAIN cache
         /\ cache' = CacheAll(cache, c * FillChunk, FillChunk, data, now)
         /\ ever_stored' = ever_stored \cup ChunkKeys(c)
         /\ stored_city' = [k \in DOMAIN stored_city \cup ChunkKeys(c) |->
                              IF k \in ChunkKeys(c) THEN <<>> ELSE stored_city[k]]
    /\ pc' = [w \in Workers |-> "idle"]
    /\ cache_key' = [w \in Workers |-> NoKey]
    /\ outcome' = [w \in Workers |-> NoOutcome]
    /\ response' = [w \in Workers |-> None]
    /\ cache_age' = [w \in Workers |-> NoAge]
    /\ UNCHANGED <<cache_enabled, now, last_put, method, city, coordinates,
                   error_connected, latest, cache_entry, uvars>>

\* get_weather_by_coordinates for the first of the pairs FillCache stores.
FillCallCoords == Call(1, "get_weather_by_coordinates", <<>>, <<10, 0>>)

FillNext ==
    \/ Tick
    \/ FillCache
    \/ FillCallCoords
    \/ SeqStep

\* Calls made one after another on a cache a caller fills beyond
\* MaxCacheSize entries.
FillSpec == Init /\ [][FillNext]_vars

\* -------------------------------------------------------- the main window

\* What LocationService.get_current_location can produce.
LocationResults ==
    {[ok |-> FALSE, xy |-> <<>>]} \cup {[ok |-> TRUE, xy |-> xy] : xy \in CoordPairs}

\* Value of `latest` once the result of the most recently started request
\* has been displayed.
Shown == MaxWorkers + 1

HasFreeWorker == \E w \in Workers : pc[w] = "idle"

FreeWorker == CHOOSE w \in Workers : pc[w] = "idle" /\ \A v \in Workers : pc[v] = "idle" => w <= v

\* WeatherWorker(self.api, city=c, coordinates=xy), the connection of its
\* signals, and start()
StartWorker(c, xy, err) ==
    /\ HasFreeWorker
    /\ LET w == FreeWorker
       IN  /\ pc' = [pc EXCEPT ![w] = "run"]
           /\ city' = [city EXCEPT ![w] = c]
           /\ coordinates' = [coordinates EXCEPT ![w] = xy]
           /\ error_connected' = [error_connected EXCEPT ![w] = err]
           /\ latest' = w
    /\ UNCHANGED <<method, cache_key, cache_entry, cache_age, response, outcome>>

\* search_weather with `text` in the city input
search_weather(text) ==
    LET c == Strip(text)
    IN  /\ IF c = <<>>
           THEN /\ buttons_enabled' = TRUE          \* show_error, set_normal_state
                /\ UNCHANGED wvars
           ELSE /\ buttons_enabled' = FALSE         \* set_loading_state
                /\ StartWorker(c, <<>>, TRUE)
        /\ UNCHANGED <<cache_enabled, now, cache, hvars, current_weather_data, timer_due>>

\* search_button.clicked
SearchClicked ==
    /\ buttons_enabled
    /\ \E text \in InputTexts : search_weather(text)

\* city_input.returnPressed: the line edit is never disabled
ReturnPressed ==
    \E text \in InputTexts : search_weather(text)

\* refresh_button.clicked -> refresh_current
RefreshClicked ==
    /\ buttons_enabled
    /\ IF current_weather_data # None /\ current_weather_data.city # <<>>
       THEN search_weather(current_weather_data.city)
       ELSE UNCHANGED vars

\* location_button.clicked -> get_location_weather
LocationClicked ==
    /\ buttons_enabled
    /\ \E loc \in LocationResults :
         IF ~loc.ok                                 \* LocationServiceError
         THEN /\ buttons_enabled' = TRUE            \* show_error, set_normal_state
              /\ UNCHANGED wvars
         ELSE /\ buttons_enabled' = FALSE           \* set_loading_state
              /\ StartWorker(<<>>, loc.xy, TRUE)
    /\ UNCHANGED <<cache_enabled, now, cache, hvars, current_weather_data, timer_due>>

\* auto_refresh_timer.timeout -> auto_refresh
AutoRefresh ==
    /\ now >= timer_due
    /\ timer_due' = timer_due + RefreshPeriod
    /\ IF current_weather_data # None /\ current_weather_data.city # <<>>
       THEN StartWorker(current_weather_data.city, <<>>, FALSE)
       ELSE UNCHANGED wvars
    /\ UNCHANGED <<cache_enabled, now, cache, hvars, buttons_enabled, current_weather_data>>

\* WeatherWorker.run up to the call of the WeatherAPI method
RunDispatch(w) ==
    /\ pc[w] = "run"
    /\ IF city[w] # <<>>
       THEN /\ pc' = [pc EXCEPT ![w] = "enter"]
            /\ method' = [method EXCEPT ![w] = "get_weather_by_city"]
            /\ UNCHANGED outcome
       ELSE IF coordinates[w] # <<>>
       THEN /\ pc' = [pc EXCEPT ![w] = "enter"]
            /\ method' = [method EXCEPT ![w] = "get_weather_by_coordinates"]
            /\ UNCHANGED outcome
       ELSE /\ EndCall(w, Raised("WeatherAPIError", "run"))
            /\ UNCHANGED method
    /\ UNCHANGED <<cache_enabled, now, cache, hvars, city, coordinates,
                   error_connected, latest, cache_key, cache_entry, cache_age, response, uvars>>

\* WeatherWorker.run after the call, and the slot the signal reaches in the
\* main thread: weather_data_ready -> display_weather; error_occurred ->
\* show_error when connected; an exception other than WeatherAPIError leaves
\* run() uncaught and no signal is emitted. The thread ends.
RunFinish(w) ==
    /\ pc[w] = "call_end"
    /\ IF outcome[w].kind = "returned"
       THEN /\ current_weather_data' = outcome[w].data
            /\ buttons_enabled' = TRUE              \* set_normal_state
       ELSE IF outcome[w].exc = "WeatherAPIError" /\ error_connected[w]
       THEN /\ buttons_enabled' = TRUE              \* show_error, set_normal_state
            /\ UNCHANGED current_weather_data
       ELSE UNCHANGED <<buttons_enabled, current_weather_data>>
    /\ pc' = [pc EXCEPT ![w] = "idle"]
    /\ method' = [method EXCEPT ![w] = "none"]
    /\ city' = [city EXCEPT ![w] = <<>>]
    /\ coordinates' = [coordinates EXCEPT ![w] = <<>>]
    /\ error_connected' = [error_connected EXCEPT ![w] = FALSE]
    /\ cache_key' = [cache_key EXCEPT ![w] = NoKey]
    /\ cache_entry' = [cache_entry EXCEPT ![w] = None]
    /\ cache_age' = [cache_age EXCEPT ![w] = NoAge]
    /\ response' = [response EXCEPT ![w] = None]
    /\ outcome' = [outcome EXCEPT ![w] = NoOutcome]
    /\ latest' = IF \A v \in Workers \ {w} : pc[v] = "idle" THEN 0
                  ELSE IF latest # w THEN latest
                  ELSE IF outcome[w].kind = "returned" THEN Shown ELSE 0
    /\ UNCHANGED <<cache_enabled, now, cache, hvars, timer_due>>

WorkerStep == \E w \in Workers : RunDispatch(w) \/ ApiStep(w) \/ RunFinish(w)

Next ==
    \/ Tick
    \/ SearchClicked
    \/ ReturnPressed
    \/ RefreshClicked
    \/ LocationClicked
    \/ AutoRefresh
    \/ WorkerStep

\* config.py as shipped: CACHE_CONFIG["ENABLED"] is True.
AppInit == Init /\ cache_enabled

\* The application with the configuration as shipped: the window's handlers
\* and the worker threads they start.
Spec == AppInit /\ [][Next]_vars

\* The application when every started thread keeps running until run()
\* ends: QThread.start() schedules the thread, and nothing in run() waits
\* for another thread.
LiveSpec ==
    /\ AppInit
    /\ [][Next]_vars
    /\ \A w \in Workers : WF_vars(RunDispatch(w) \/ ApiStep(w) \/ RunFinish(w))


\* ------------------------------------------------------------------ claims

\* The call of worker w returned data without a request: a cache hit.
IsHit(w) ==
    /\ pc[w] = "call_end"
    /\ outcome[w].kind = "returned"
    /\ response[w] = None

LookupPcs == {"lookup_read", "lookup_age", "lookup_del"}

\* Where a worker is while its thread executes a WeatherAPI method.
ApiPcs == {"enter", "request", "store"} \cup LookupPcs

\* An entry for k is present and at most CacheTTL seconds old at time t.
Fresh(k, t) == k \in DOMAIN cache /\ t - cache[k].timestamp <= CacheTTL

\* C1: a lookup returns the stored data if and only if an entry for the key
\* is present and its age, at the moment the lookup reads the clock, is at
\* most 300 seconds; an absent key is a miss, and so is an older entry.
C1Thm ==
    [][\A w \in Workers :
         /\ (pc[w] = "enter" /\ pc'[w] \notin {"enter", "call_end"})
               => (pc'[w] = "request" <=> KeyOf(w) \notin DOMAIN cache)
         /\ (pc[w] = "lookup_age" /\ pc'[w] # "lookup_age")
               => IF Fresh(cache_key[w], now)
                  THEN /\ pc'[w] = "call_end"
                       /\ outcome'[w] = Returned(cache[cache_key[w]].data)
                  ELSE /\ pc'[w] = "lookup_del"
                       /\ outcome'[w] = NoOutcome
         /\ (pc[w] = "lookup_del" /\ pc'[w] # "lookup_del")
               => pc'[w] = "request"]_vars

\* C1 witness: a hit on an entry aged exactly 300 seconds.
C1Wit == \E w \in Workers : IsHit(w) /\ cache_age[w] = CacheTTL

\* C2: while no time has passed since a caller's _cache_data(k, v), a call
\* that looks k up is still inside the lookup or has ended as a hit that
\* returns v: it never goes on to a request, a delete or an exception.
C2Thm ==
    \A w \in Workers :
        (/\ last_put # None
         /\ last_put.time = now
         /\ pc[w] \notin {"idle", "enter"}
         /\ cache_key[w] = last_put.key)
           => \/ pc[w] \in {"lookup_read", "lookup_age"}
              \/ IsHit(w) /\ outcome[w].data = last_put.data

\* C2 witness: a hit returning v with no time elapsed since _cache_data(k, v).
C2Wit ==
    \E w \in Workers :
        /\ last_put # None
        /\ last_put.time = now
        /\ IsHit(w)
        /\ cache_key[w] = last_put.key
        /\ outcome[w].data = last_put.data

\* C3: a lookup of k that reads the clock more than 300 seconds after the
\* store of k's entry is a miss, and its next step removes k (and only k)
\* from the cache before the call goes on to the request.
C3Thm ==
    [][\A w \in Workers :
         /\ (/\ pc[w] = "lookup_age" /\ pc'[w] # "lookup_age"
             /\ cache_key[w] \in DOMAIN cache
             /\ now - cache[cache_key[w]].timestamp > CacheTTL)
               => pc'[w] = "lookup_del" /\ outcome'[w] = NoOutcome
         /\ (pc[w] = "lookup_del" /\ pc'[w] # "lookup_del")
               => /\ pc'[w] = "request"
                  /\ cache_key[w] \notin DOMAIN cache'
                  /\ DOMAIN cache' = DOMAIN cache \ {cache_key[w]}]_vars

\* C3 witness: right after a lookup missed, the key, stored before, is gone.
C3Wit ==
    \E w \in Workers :
        /\ pc[w] = "request"
        /\ cache_key[w] \in ever_stored
        /\ cache_key[w] \notin DOMAIN cache

\* C4: after a caller's _cache_data(k, v2), the entry of k is never older
\* than that call; while it carries that call's timestamp it holds v2, and
\* a hit on it returns v2, whatever k held before; k leaves the cache only
\* once the validity window of that store is over.
C4Thm ==
    last_put # None =>
        LET k == last_put.key
        IN  /\ k \in DOMAIN cache =>
                 /\ cache[k].timestamp >= last_put.time
                 /\ cache[k].timestamp = last_put.time => cache[k].data = last_put.data
            /\ k \notin DOMAIN cache => now - last_put.time > CacheTTL
            /\ \A w \in Workers :
                 (IsHit(w) /\ cache_key[w] = k /\ cache[k].timestamp = last_put.time)
                    => outcome[w].data = last_put.data

\* C4 witness: a hit returning v2 after _cache_data(k, v2) replaced a
\* different v1.
C4Wit ==
    \E w \in Workers :
        /\ last_put # None
        /\ last_put.replaced \notin {None, last_put.data}
        /\ IsHit(w)
        /\ cache_key[w] = last_put.key
        /\ cache[last_put.key].timestamp = last_put.time
        /\ outcome[w].data = last_put.data

\* C5: a lookup of a key that was never stored is a miss at the membership
\* test and leaves the cache unchanged.
C5Thm ==
    [][\A w \in Workers :
         (/\ pc[w] = "enter" /\ pc'[w] \notin {"enter", "call_end"}
          /\ KeyOf(w) \notin ever_stored)
            => pc'[w] = "request" /\ cache' = cache]_vars

\* C5 witness: a miss on a never stored key of a fresh, empty cache.
C5Wit ==
    \E w \in Workers :
        /\ pc[w] = "request"
        /\ cache_key[w] \notin ever_stored
        /\ cache = <<>>

\* C6 (as claimed): with the cache disabled no call reads or writes the
\* cache, and none is answered from it.
C6Claim ==
    ~cache_enabled =>
        \A w \in Workers : pc[w] \notin LookupPcs \cup {"store"} /\ ~IsHit(w)

\* C7 (as claimed): at most one worker thread executes a WeatherAPI method.
C7Claim == Cardinality({w \in Workers : pc[w] \in ApiPcs}) <= 1

\* C8 (as claimed): no cache lookup ends in an exception.
C8Claim ==
    \A w \in Workers :
        ~(/\ pc[w] = "call_end"
          /\ outcome[w].kind = "raised"
          /\ outcome[w].at = "_get_cached_data")

\* C9: from the miss to the end of a failed fetch the cache does not change,
\* and a fetch that ends at the request step has raised.
C9Thm ==
    [][\A w \in Workers :
         (pc[w] = "request" /\ pc'[w] \in {"request", "call_end"})
            => /\ cache' = cache
               /\ pc'[w] = "call_end" => outcome'[w].kind = "raised"]_vars

\* C9 witness: a fetch failed after a miss, and the key has no entry.
C9Wit ==
    \E w \in Workers :
        /\ pc[w] = "call_end"
        /\ outcome[w].kind = "raised"
        /\ cache_key[w] # NoKey
        /\ cache_key[w] \notin DOMAIN cache

\* C10 (as claimed): a call ends by returning a record or by raising
\* WeatherAPIError.
C10Claim ==
    \A w \in Workers :
        pc[w] = "call_end" =>
            \/ outcome[w].kind = "returned"
            \/ outcome[w].exc = "WeatherAPIError"

\* C11: once a record is stored under a key, no call with that key goes on
\* to the upstream request while the entry is at most 300 seconds old: the
\* lookup ends the call with the stored record and without a response.
C11Thm ==
    [][\A w \in Workers :
         /\ (pc[w] # "request" /\ pc'[w] = "request") => ~Fresh(KeyOf(w), now)
         /\ (pc[w] = "lookup_age" /\ pc'[w] = "call_end")
               => /\ Fresh(cache_key[w], now)
                  /\ outcome'[w] = Returned(cache[cache_key[w]].data)
                  /\ response'[w] = None]_vars

\* C11 witness: a call answered from an entry stored 299 seconds earlier.
C11Wit ==
    \E w \in Workers :
        /\ IsHit(w)
        /\ cache_key[w] \in ever_stored
        /\ cache_age[w] > 0
        /\ cache_age[w] < CacheTTL

\* C12: a city call whose city equals, up to letter case, the city of the
\* call that stored a still valid entry looks up that entry's key and is
\* answered with that entry's record.
C12Thm ==
    [][\A w \in Workers : \A k \in DOMAIN stored_city :
         (/\ IsCityCall(w)
          /\ \E i \in DOMAIN city[w] : city[w][i] # " "
          /\ Lower(stored_city[k]) = Lower(city[w])
          /\ Fresh(k, now))
            => /\ (pc[w] = "enter" /\ pc'[w] # "enter")
                     => pc'[w] = "lookup_read" /\ cache_key'[w] = k
               /\ (pc[w] = "lookup_age" /\ pc'[w] # "lookup_age")
                     => /\ pc'[w] = "call_end"
                        /\ outcome'[w] = Returned(cache[k].data)]_vars

\* C12 witness: a hit for a city spelled differently from the city of the
\* call that stored the entry.
C12Wit ==
    \E w \in Workers :
        /\ IsHit(w)
        /\ IsCityCall(w)
        /\ cache_key[w] \in DOMAIN stored_city
        /\ stored_city[cache_key[w]] # city[w]

\* C13: no city key equals a coordinate key, and a hit of a city call is on
\* an entry a city call stored, a hit of a coordinate call on an entry a
\* coordinate call stored.
C13Thm ==
    /\ \A c \in KeyCityTexts, xy \in CoordPairs : CityKey(c) # CoordsKey(xy[1], xy[2])
    /\ \A w \in Workers :
          IsHit(w) => (IsCityCall(w) <=> stored_city[cache_key[w]] # <<>>)

\* C13 witness: a city call is answered from the cache while the cache also
\* holds an entry stored by a coordinate call.
C13Wit ==
    \E w \in Workers :
        /\ IsHit(w)
        /\ IsCityCall(w)
        /\ \E k \in DOMAIN cache : stored_city[k] = <<>>

\* C14: the steps of a lookup of k leave every entry of another key as it
\* is and add none; the entry of k is left as it is or deleted; only the
\* delete step of an expired lookup changes the cache at all, so a hit
\* leaves data and timestamp of every entry unchanged.
C14Thm ==
    [][\A w \in Workers :
         (pc[w] \in {"enter"} \cup LookupPcs /\ pc'[w] # pc[w])
            => /\ DOMAIN cache' \subseteq DOMAIN cache
               /\ DOMAIN cache \ {KeyOf(w)} \subseteq DOMAIN cache'
               /\ \A k \in DOMAIN cache' : cache'[k] = cache[k]
               /\ (pc[w] # "lookup_del" \/ pc'[w] = "call_end") => cache' = cache]_vars

\* C14 witness: a lookup has just deleted its own stale entry and the cache
\* still holds the entry of another key.
C14Wit ==
    \E w \in Workers :
        /\ pc[w] = "request"
        /\ cache_key[w] \in ever_stored
        /\ cache_key[w] \notin DOMAIN cache
        /\ cache # <<>>

\* The state of key k's entry in cache c at time t.
EntryState(k, c, t) ==
    IF k \notin DOMAIN c THEN "ABSENT"
    ELSE IF t - c[k].timestamp > CacheTTL THEN "EXPIRED"
    ELSE "FRESH"

\* C15: a key leaves ABSENT only to FRESH and only by a store; it leaves
\* FRESH only to EXPIRED and only by the passing of time; it goes from
\* EXPIRED to ABSENT only by the delete step of a lookup of that key, and
\* from EXPIRED to FRESH only by a store; a lookup is a hit only on a FRESH
\* entry.
C15Thm ==
    [][\A k \in Keys :
         LET s == EntryState(k, cache, now)
             t == EntryState(k, cache', now')
             stored == /\ cache'[k].timestamp = now
                       /\ \/ \E w \in Workers : /\ pc[w] = "store"
                                                 /\ cache_key[w] = k
                                                 /\ pc'[w] = "call_end"
                          \/ last_put' # last_put /\ last_put'.key = k
         IN  /\ (s = "ABSENT" /\ t # "ABSENT") => (t = "FRESH" /\ stored)
             /\ (s = "FRESH" /\ t # "FRESH") => (t = "EXPIRED" /\ now' > now)
             /\ (s = "EXPIRED" /\ t = "ABSENT")
                   => \E w \in Workers : /\ pc[w] = "lookup_del"
                                         /\ cache_key[w] = k
                                         /\ pc'[w] = "request"
             /\ (s = "EXPIRED" /\ t = "FRESH") => stored
             /\ \A w \in Workers :
                   (pc[w] = "lookup_age" /\ pc'[w] = "call_end" /\ cache_key[w] = k)
                      => s = "FRESH"]_vars

\* C15 witness: a lookup found the entry a caller had stored EXPIRED and is
\* about to delete it.
C15Wit ==
    \E w \in Workers :
        /\ pc[w] = "lookup_del"
        /\ EntryState(cache_key[w], cache, now) = "EXPIRED"
        /\ last_put # None
        /\ last_put.key = cache_key[w]

\* C16: a key that was stored is missing from the cache after a step only
\* if it was missing before, or if the step is the delete of a lookup of
\* that same key whose entry was older than 300 seconds: no store removes a
\* key, not even beyond MaxCacheSize entries, and nothing sweeps expired
\* entries.
C16Thm ==
    [][\A k \in ever_stored' \ DOMAIN cache' :
         \/ k \in ever_stored \ DOMAIN cache
         \/ \E w \in Workers :
              /\ pc[w] = "lookup_del" /\ pc'[w] = "request"
              /\ cache_key[w] = k
              /\ k \in DOMAIN cache
              /\ now - cache[k].timestamp > CacheTTL]_vars

\* C16 witness: a lookup has deleted its own expired entry, and the cache
\* still holds more than MaxCacheSize entries, expired ones among them.
C16Wit ==
    \E w \in Workers :
        /\ pc[w] = "request"
        /\ cache_key[w] \in ever_stored \ DOMAIN cache
        /\ Cardinality(DOMAIN cache) > MaxCacheSize
        /\ \E k \in DOMAIN cache : now - cache[k].timestamp > CacheTTL

\* C17: a city call whose city is empty or all spaces ends at its first
\* step with WeatherAPIError: it computes no key, looks nothing up, sends no
\* request, and the cache is unchanged.
C17Thm ==
    [][\A w \in Workers :
         (/\ pc[w] = "enter" /\ pc'[w] # "enter"
          /\ IsCityCall(w)
          /\ \A i \in DOMAIN city[w] : city[w][i] = " ")
            => /\ pc'[w] = "call_end"
               /\ outcome'[w] = Raised("WeatherAPIError", "get_weather_by_city")
               /\ cache_key'[w] = NoKey
               /\ response'[w] = None
               /\ cache' = cache]_vars

\* C17 witness: a call with a city of one space has failed while the cache
\* holds an entry older than 300 seconds, which is still there.
C17Wit ==
    \E w \in Workers :
        /\ pc[w] = "call_end"
        /\ IsCityCall(w)
        /\ city[w] = <<" ">>
        /\ outcome[w].kind = "raised"
        /\ \E k \in DOMAIN cache : now - cache[k].timestamp > CacheTTL

\* C18 (as claimed): whenever the three buttons are disabled they are
\* eventually enabled again.
C18Claim == (~buttons_enabled) ~> buttons_enabled

\* C19 (as claimed): once the result of the most recently started request
\* is displayed, a worker started before it does not replace the displayed
\* weather by a different result.
C19Claim ==
    [][\A w \in Workers :
         (/\ pc[w] = "call_end" /\ pc'[w] = "idle"
          /\ outcome[w].kind = "returned"
          /\ latest = Shown)
            => current_weather_data' = current_weather_data]_vars

====
